---- MODULE Spec2Model ----
(***************************************************************************)
(* candev: CAN frames in the kernel's binary layout (src/src/frame.rs),    *)
(* the decoder of error frames (src/src/error.rs) and identifier/mask      *)
(* filters (src/src/filter.rs).                                            *)
(*                                                                         *)
(* A u32 is modelled as a pair of 16-bit halves [hi, lo] (value            *)
(* hi * 65536 + lo), because the flag bits 29..31 of the identifier word   *)
(* lie beyond the integers the model checker computes with.  Comparison    *)
(* and the bitwise operators are defined on that representation.           *)
(***************************************************************************)
EXTENDS Integers, Sequences, FiniteSets, TLC

(***************************************************************************)
(* 32-bit words                                                            *)
(***************************************************************************)
W(h, l) == [hi |-> h, lo |-> l]

RECURSIVE BitAnd(_, _)
BitAnd(a, b) ==
    IF a = 0 \/ b = 0 THEN 0
    ELSE (a % 2) * (b % 2) + 2 * BitAnd(a \div 2, b \div 2)

RECURSIVE BitOr(_, _)
BitOr(a, b) ==
    IF a = 0 THEN b
    ELSE IF b = 0 THEN a
    ELSE (IF a % 2 = 1 \/ b % 2 = 1 THEN 1 ELSE 0) + 2 * BitOr(a \div 2, b \div 2)

\* a & b on u32
And32(a, b) == W(BitAnd(a.hi, b.hi), BitAnd(a.lo, b.lo))

\* a | b on u32
Or32(a, b) == W(BitOr(a.hi, b.hi), BitOr(a.lo, b.lo))

\* a > b on u32
Gt32(a, b) == a.hi > b.hi \/ (a.hi = b.hi /\ a.lo > b.lo)

Zero32 == W(0, 0)

\* `v as u32` for a u16 v, and `w as u16` for a u32 w
U16ToU32(v) == W(0, v)
U32ToU16(w) == w.lo

(***************************************************************************)
(* Identifier namespace: flag bits and masks                               *)
(***************************************************************************)
CAN_EFF_FLAG == W(32768, 0)      \* 0x80000000
CAN_RTR_FLAG == W(16384, 0)      \* 0x40000000
CAN_ERR_FLAG == W(8192, 0)       \* 0x20000000
CAN_SFF_MASK == W(0, 2047)       \* 0x000007FF
CAN_EFF_MASK == W(8191, 65535)   \* 0x1FFFFFFF
CAN_ERR_MASK == W(8191, 65535)   \* 0x1FFFFFFF

(***************************************************************************)
(* Results: Ok(v), Err(e), and a panic of the running thread               *)
(***************************************************************************)
Ok(v) == [tag |-> "Ok", val |-> v]
Err(e) == [tag |-> "Err", val |-> e]
Panic == [tag |-> "Panic", val |-> "index out of range"]
NotCalled == [tag |-> "NotCalled", val |-> "none"]

\* ConstructionError
IDTooLarge == [kind |-> "IDTooLarge"]
TooMuchData == [kind |-> "TooMuchData"]

(***************************************************************************)
(* Frame                                                                   *)
(***************************************************************************)
Zeros8 == [i \in 1..8 |-> 0]

\* the first 8 bytes of data laid over a zeroed buffer (data has at most 8)
FullData(data) == [i \in 1..8 |-> IF i <= Len(data) THEN data[i] ELSE 0]

\* faulty variants of Frame::new, which the properties below must tell from
\* it: dlc one short; the id checked before the length; no id check; the
\* EFF flag always set; the EFF flag never set
Frame_new_dlc_short(id, data, rtr, err) ==
    IF Len(data) > 8 THEN Err(TooMuchData)
    ELSE IF Gt32(id, CAN_EFF_MASK) THEN Err(IDTooLarge)
    ELSE
      LET id1 == IF Gt32(id, CAN_SFF_MASK) THEN Or32(id, CAN_EFF_FLAG) ELSE id
          id2 == IF rtr THEN Or32(id1, CAN_RTR_FLAG) ELSE id1
          id3 == IF err THEN Or32(id2, CAN_ERR_FLAG) ELSE id2
      IN  Ok([id |-> id3,
              dlc |-> IF Len(data) = 0 THEN 0 ELSE Len(data) - 1,
              pad |-> 0, res0 |-> 0, res1 |-> 0,
              data |-> FullData(data)])

Frame_new_id_check_first(id, data, rtr, err) ==
    IF Gt32(id, CAN_EFF_MASK) THEN Err(IDTooLarge)
    ELSE IF Len(data) > 8 THEN Err(TooMuchData)
    ELSE
      LET id1 == IF Gt32(id, CAN_SFF_MASK) THEN Or32(id, CAN_EFF_FLAG) ELSE id
          id2 == IF rtr THEN Or32(id1, CAN_RTR_FLAG) ELSE id1
          id3 == IF err THEN Or32(id2, CAN_ERR_FLAG) ELSE id2
      IN  Ok([id |-> id3, dlc |-> Len(data),
              pad |-> 0, res0 |-> 0, res1 |-> 0,
              data |-> FullData(data)])

Frame_new_no_id_check(id, data, rtr, err) ==
    IF Len(data) > 8 THEN Err(TooMuchData)
    ELSE
      LET id1 == IF Gt32(id, CAN_SFF_MASK) THEN Or32(id, CAN_EFF_FLAG) ELSE id
          id2 == IF rtr THEN Or32(id1, CAN_RTR_FLAG) ELSE id1
          id3 == IF err THEN Or32(id2, CAN_ERR_FLAG) ELSE id2
      IN  Ok([id |-> id3, dlc |-> Len(data),
              pad |-> 0, res0 |-> 0, res1 |-> 0,
              data |-> FullData(data)])

Frame_new_always_eff(id, data, rtr, err) ==
    IF Len(data) > 8 THEN Err(TooMuchData)
    ELSE IF Gt32(id, CAN_EFF_MASK) THEN Err(IDTooLarge)
    ELSE
      LET id1 == Or32(id, CAN_EFF_FLAG)
          id2 == IF rtr THEN Or32(id1, CAN_RTR_FLAG) ELSE id1
          id3 == IF err THEN Or32(id2, CAN_ERR_FLAG) ELSE id2
      IN  Ok([id |-> id3, dlc |-> Len(data),
              pad |-> 0, res0 |-> 0, res1 |-> 0,
              data |-> FullData(data)])

Frame_new_never_eff(id, data, rtr, err) ==
    IF Len(data) > 8 THEN Err(TooMuchData)
    ELSE IF Gt32(id, CAN_EFF_MASK) THEN Err(IDTooLarge)
    ELSE
      LET id2 == IF rtr THEN Or32(id, CAN_RTR_FLAG) ELSE id
          id3 == IF err THEN Or32(id2, CAN_ERR_FLAG) ELSE id2
      IN  Ok([id |-> id3, dlc |-> Len(data),
              pad |-> 0, res0 |-> 0, res1 |-> 0,
              data |-> FullData(data)])

\* Frame::new
Frame_new(id, data, rtr, err) ==
    IF Len(data) > 8 THEN Err(TooMuchData)
    ELSE IF Gt32(id, CAN_EFF_MASK) THEN Err(IDTooLarge)
    ELSE
      LET id1 == IF Gt32(id, CAN_SFF_MASK) THEN Or32(id, CAN_EFF_FLAG) ELSE id
          id2 == IF rtr THEN Or32(id1, CAN_RTR_FLAG) ELSE id1
          id3 == IF err THEN Or32(id2, CAN_ERR_FLAG) ELSE id2
      IN  Ok([id |-> id3, dlc |-> Len(data),
              pad |-> 0, res0 |-> 0, res1 |-> 0,
              data |-> FullData(data)])

\* #[derive(Default)]: every field zero
Frame_default ==
    [id |-> Zero32, dlc |-> 0, pad |-> 0, res0 |-> 0, res1 |-> 0, data |-> Zeros8]

\* Frame::data / embedded_can::Frame::data: &self.data[..dlc]; the slice
\* index panics when dlc exceeds the 8 bytes of the buffer
Frame_data(f) ==
    IF f.dlc > 8 THEN Panic ELSE Ok(SubSeq(f.data, 1, f.dlc))

\* embedded_can::Frame::dlc
Frame_dlc(f) == f.dlc

\* Frame::err
Frame_err(f) == And32(f.id, CAN_ERR_MASK)

\* Frame::is_error
Frame_is_error(f) == And32(f.id, CAN_ERR_FLAG) # Zero32

\* embedded_can::Frame::is_extended
Frame_is_extended(f) == And32(f.id, CAN_EFF_FLAG) # Zero32

\* embedded_can::Frame::is_remote_frame
Frame_is_remote_frame(f) == And32(f.id, CAN_RTR_FLAG) # Zero32

\* embedded_can::Frame::id: the identifier with its kind
Frame_id(f) ==
    IF Frame_is_extended(f)
    THEN [kind |-> "Extended", raw |-> And32(f.id, CAN_EFF_MASK)]
    ELSE [kind |-> "Standard", raw |-> U16ToU32(U32ToU16(And32(f.id, CAN_SFF_MASK)))]

\* Option: Some(v) and None
Some(v) == [tag |-> "Some", val |-> v]
None == [tag |-> "None", val |-> "none"]

\* embedded_can::Id: Standard(StandardId) or Extended(ExtendedId), the raw
\* value kept as a u32 (a StandardId's as_raw() is its low half)
StandardId(v) == [kind |-> "Standard", raw |-> U16ToU32(v)]
ExtendedId(w) == [kind |-> "Extended", raw |-> w]

\* <Frame as embedded_can::Frame>::new
Frame_trait_new(id, data) ==
    LET r == IF id.kind = "Extended"
             THEN Frame_new(id.raw, data, FALSE, FALSE)
             ELSE Frame_new(U16ToU32(U32ToU16(id.raw)), data, FALSE, FALSE)
    IN  IF r.tag = "Ok" THEN Some(r.val) ELSE None

\* <Frame as embedded_can::Frame>::new_remote
Frame_new_remote(id, dlc) ==
    LET data == [i \in 1..dlc |-> 0]
        r == IF id.kind = "Extended"
             THEN Frame_new(id.raw, data, TRUE, FALSE)
             ELSE Frame_new(U16ToU32(U32ToU16(id.raw)), data, TRUE, FALSE)
    IN  IF r.tag = "Ok" THEN Some(r.val) ELSE None

(***************************************************************************)
(* Error model                                                             *)
(***************************************************************************)
\* DecodingError
NotAnError == [kind |-> "NotAnError"]
UnknownErrorType(code) == [kind |-> "UnknownErrorType", code |-> code]
NotEnoughData(idx) == [kind |-> "NotEnoughData", idx |-> idx]
InvalidControllerProblem == [kind |-> "InvalidControllerProblem"]
InvalidViolationType == [kind |-> "InvalidViolationType"]
InvalidLocation == [kind |-> "InvalidLocation"]

\* CanError
TransmitTimeout == [kind |-> "TransmitTimeout"]
LostArbitration(n) == [kind |-> "LostArbitration", n |-> n]
ControllerProblemError(p) == [kind |-> "ControllerProblem", problem |-> p]
ProtocolViolation(t, l) == [kind |-> "ProtocolViolation", vtype |-> t, location |-> l]
TransceiverError == [kind |-> "TransceiverError"]
NoAck == [kind |-> "NoAck"]
BusOff == [kind |-> "BusOff"]
BusError == [kind |-> "BusError"]
Restarted == [kind |-> "Restarted"]

\* faulty variants of get_data: the byte after the one asked for; the first
\* byte and index 0 whatever is asked for
get_data_off_by_one(frame, idx) ==
    LET d == Frame_data(frame)
    IN  IF d.tag = "Panic" THEN Panic
        ELSE IF idx <= Len(d.val) /\ idx + 1 <= 8 THEN Ok(frame.data[idx + 1])
        ELSE Err(NotEnoughData(idx))

get_data_first_byte(frame, idx) ==
    LET d == Frame_data(frame)
    IN  IF d.tag = "Panic" THEN Panic
        ELSE IF idx < Len(d.val) THEN Ok(d.val[1])
        ELSE Err(NotEnoughData(0))

\* get_data: byte idx (counted from 0) of frame.data(), or NotEnoughData(idx)
get_data(frame, idx) ==
    LET d == Frame_data(frame)
    IN  IF d.tag = "Panic" THEN Panic
        ELSE IF idx < Len(d.val) THEN Ok(d.val[idx + 1])
        ELSE Err(NotEnoughData(idx))

\* ControllerProblem::try_from
ControllerProblem_try_from(val) ==
    CASE val = 0 -> Ok("Unspecified")
      [] val = 1 -> Ok("ReceiveBufferOverflow")
      [] val = 2 -> Ok("TransmitBufferOverflow")
      [] val = 4 -> Ok("ReceiveErrorWarning")
      [] val = 8 -> Ok("TransmitErrorWarning")
      [] val = 16 -> Ok("ReceiveErrorPassive")
      [] val = 32 -> Ok("TransmitErrorPassive")
      [] val = 64 -> Ok("Active")
      [] OTHER -> Err(InvalidControllerProblem)

\* ViolationType::try_from
ViolationType_try_from(val) ==
    CASE val = 0 -> Ok("Unspecified")
      [] val = 1 -> Ok("SingleBitError")
      [] val = 2 -> Ok("FrameFormatError")
      [] val = 4 -> Ok("BitStuffingError")
      [] val = 8 -> Ok("UnableToSendDominantBit")
      [] val = 16 -> Ok("UnableToSendRecessiveBit")
      [] val = 32 -> Ok("BusOverload")
      [] val = 64 -> Ok("Active")
      [] val = 128 -> Ok("TransmissionError")
      [] OTHER -> Err(InvalidViolationType)

\* Location::try_from
Location_try_from(val) ==
    CASE val = 0 -> Ok("Unspecified")
      [] val = 3 -> Ok("StartOfFrame")
      [] val = 2 -> Ok("Id2821")
      [] val = 6 -> Ok("Id2018")
      [] val = 4 -> Ok("SubstituteRtr")
      [] val = 5 -> Ok("IdentifierExtension")
      [] val = 7 -> Ok("Id1713")
      [] val = 15 -> Ok("Id1205")
      [] val = 14 -> Ok("Id0400")
      [] val = 12 -> Ok("Rtr")
      [] val = 13 -> Ok("Reserved1")
      [] val = 9 -> Ok("Reserved0")
      [] val = 11 -> Ok("DataLengthCode")
      [] val = 10 -> Ok("DataSection")
      [] val = 8 -> Ok("CrcSequence")
      [] val = 24 -> Ok("CrcDelimiter")
      [] val = 25 -> Ok("AckSlot")
      [] val = 27 -> Ok("AckDelimiter")
      [] val = 26 -> Ok("EndOfFrame")
      [] val = 18 -> Ok("Intermission")
      [] OTHER -> Err(InvalidLocation)

\* the arms of the match on frame.err() in CanError::from_frame; each `?`
\* returns early with what is not Ok
DecodeLostArbitration(frame) ==
    LET b == get_data(frame, 0)
    IN  IF b.tag # "Ok" THEN b ELSE Ok(LostArbitration(b.val))

DecodeControllerProblem(frame) ==
    LET b == get_data(frame, 1)
        p == ControllerProblem_try_from(b.val)
    IN  IF b.tag # "Ok" THEN b
        ELSE IF p.tag # "Ok" THEN p
        ELSE Ok(ControllerProblemError(p.val))

DecodeProtocolViolation(frame) ==
    LET b2 == get_data(frame, 2)
        vtype == ViolationType_try_from(b2.val)
        b3 == get_data(frame, 3)
        location == Location_try_from(b3.val)
    IN  IF b2.tag # "Ok" THEN b2
        ELSE IF vtype.tag # "Ok" THEN vtype
        ELSE IF b3.tag # "Ok" THEN b3
        ELSE IF location.tag # "Ok" THEN location
        ELSE Ok(ProtocolViolation(vtype.val, location.val))

\* faulty variants of from_frame: no test of the error flag; the class code
\* read from the low 11 bits only
CanError_from_frame_ignores_flag(frame) ==
    LET e == Frame_err(frame)
    IN  CASE e = W(0, 1) -> Ok(TransmitTimeout)
          [] e = W(0, 2) -> DecodeLostArbitration(frame)
          [] e = W(0, 4) -> DecodeControllerProblem(frame)
          [] e = W(0, 8) -> DecodeProtocolViolation(frame)
          [] e = W(0, 16) -> Ok(TransceiverError)
          [] e = W(0, 32) -> Ok(NoAck)
          [] e = W(0, 64) -> Ok(BusOff)
          [] e = W(0, 128) -> Ok(BusError)
          [] e = W(0, 256) -> Ok(Restarted)
          [] OTHER -> Err(UnknownErrorType(e))

CanError_from_frame_low_bits(frame) ==
    IF ~Frame_is_error(frame) THEN Err(NotAnError)
    ELSE
      LET e == And32(frame.id, CAN_SFF_MASK)
      IN  CASE e = W(0, 1) -> Ok(TransmitTimeout)
            [] e = W(0, 2) -> DecodeLostArbitration(frame)
            [] e = W(0, 4) -> DecodeControllerProblem(frame)
            [] e = W(0, 8) -> DecodeProtocolViolation(frame)
            [] e = W(0, 16) -> Ok(TransceiverError)
            [] e = W(0, 32) -> Ok(NoAck)
            [] e = W(0, 64) -> Ok(BusOff)
            [] e = W(0, 128) -> Ok(BusError)
            [] e = W(0, 256) -> Ok(Restarted)
            [] OTHER -> Err(UnknownErrorType(e))

\* CanError::from_frame
CanError_from_frame(frame) ==
    IF ~Frame_is_error(frame) THEN Err(NotAnError)
    ELSE
      LET e == Frame_err(frame)
      IN  CASE e = W(0, 1) -> Ok(TransmitTimeout)
            [] e = W(0, 2) -> DecodeLostArbitration(frame)
            [] e = W(0, 4) -> DecodeControllerProblem(frame)
            [] e = W(0, 8) -> DecodeProtocolViolation(frame)
            [] e = W(0, 16) -> Ok(TransceiverError)
            [] e = W(0, 32) -> Ok(NoAck)
            [] e = W(0, 64) -> Ok(BusOff)
            [] e = W(0, 128) -> Ok(BusError)
            [] e = W(0, 256) -> Ok(Restarted)
            [] OTHER -> Err(UnknownErrorType(e))

\* Frame::error
Frame_error(frame) == CanError_from_frame(frame)

(***************************************************************************)
(* Filter                                                                  *)
(***************************************************************************)
\* Filter::new
Filter_new(id, mask) == [id |-> id, mask |-> mask]

\* a faulty variant of accept_all: every bit compared
accept_all_full_mask == [id |-> Zero32, mask |-> W(65535, 65535)]

\* Filter::accept_all
accept_all == [id |-> Zero32, mask |-> Zero32]

\* Filter::new_standard
new_standard(id) ==
    Filter_new(id, Or32(Or32(CAN_EFF_FLAG, CAN_RTR_FLAG), CAN_SFF_MASK))

\* Filter::new_extended
new_extended(id) ==
    Filter_new(Or32(id, CAN_EFF_FLAG),
               Or32(Or32(CAN_EFF_FLAG, CAN_RTR_FLAG), CAN_EFF_MASK))

\* Filter::with_mask
with_mask(f, mask) == [f EXCEPT !.mask = mask]

\* Filter::allow_remote
allow_remote(f) == [f EXCEPT !.mask = Or32(f.mask, CAN_RTR_FLAG)]

\* the matching rule of a Filter:
\*     <received_can_id> & mask == can_id & mask
Matches(f, received_can_id) ==
    And32(received_can_id, f.mask) = And32(f.id, f.mask)

NoFilter == [id |-> Zero32, mask |-> Zero32, set |-> FALSE]
NoVerdict == [candidate |-> Zero32, accepted |-> FALSE, matched |-> FALSE]
NoCtor == [op |-> "none", id |-> Zero32]

(***************************************************************************)
(* FilterGroup                                                             *)
(***************************************************************************)
\* maximum number of can_filter set via setsockopt()
CAN_RAW_FILTER_MAX == 512

\* size_of::<Filter>()
FilterSize == 8

\* FilterGroup::new: no filter stored
FilterGroup_new == <<>>

\* FilterGroup::len
FilterGroup_len(filters) == Len(filters)

\* FilterGroup::num_filters
num_filters == CAN_RAW_FILTER_MAX

\* FilterGroup::add_filter: the filter is pushed on the list
add_filter(filters, f) == Append(filters, f)

\* FilterGroup::set_socket_option_mult: what is handed to setsockopt for a
\* slice of values, a null pointer and length 0 for the empty slice
set_socket_option_mult(values) ==
    IF Len(values) < 1
    THEN [ptr |-> "null", len |-> 0]
    ELSE [ptr |-> "first", len |-> FilterSize * Len(values)]

NoOpt == [ptr |-> "none", len |-> 0]

(***************************************************************************)
(* Inputs                                                                  *)
(***************************************************************************)
\* payloads of up to MaxLen bytes are passed to Frame::new
MaxLen == 9

\* the dlc byte of a record read from the socket ranges over 0..MaxRawDlc
MaxRawDlc == 9

\* size_of::<Frame>()
FrameSize == 16

\* byte values a payload is made of: each sub-code table has members and
\* non-members among them
ByteVals == {0, 1, 5, 128, 255}

\* the bytes after the first four of a payload: distinct, so that an
\* error in their order or count shows
Filler(i) == (i * 37 + 222) % 256

\* the payload of n bytes that starts x, y, x, y
Payload(n, x, y) ==
    [i \in 1..n |-> IF i \in {1, 3} THEN x ELSE IF i \in {2, 4} THEN y ELSE Filler(i)]

Payloads ==
    {Payload(n, x, y) : n \in 0..MaxLen, x \in ByteVals, y \in ByteVals}

\* identifiers passed to Frame::new: the error classes, the ends of the
\* standard and of the extended range, and values beyond 29 bits
NewIds ==
    {W(0, 0), W(0, 1), W(0, 2), W(0, 3), W(0, 4), W(0, 8), W(0, 16), W(0, 32),
     W(0, 64), W(0, 128), W(0, 256), W(0, 291), W(0, 2047), W(0, 2048),
     W(1, 2), W(8191, 65535),
     W(8192, 0), W(8192, 2), W(32768, 1), W(65535, 65535)}

\* identifier words of records read from the socket: any 32 bits
RawIds ==
    {W(0, 2), W(0, 291), W(8192, 0), W(8192, 2), W(8192, 4), W(8192, 8),
     W(8192, 6), W(40960, 2), W(24576, 4), W(57344, 8), W(49152, 2),
     W(65535, 65535)}

\* what read() returns: -1, a short count, or a whole record
ReadReturns == {-1, 8, FrameSize}

(***************************************************************************)
(* Socket                                                                  *)
(***************************************************************************)
\* the FrameSize bytes of a Frame in memory (#[repr(C)], host byte order
\* of a little-endian machine): id, dlc, pad, res0, res1, data
ToBytes(f) ==
    <<f.id.lo % 256, f.id.lo \div 256, f.id.hi % 256, f.id.hi \div 256,
      f.dlc, f.pad, f.res0, f.res1>> \o f.data

\* the Frame that FrameSize bytes are, taken as they are
FromBytes(b) ==
    [id |-> W(b[3] + 256 * b[4], b[1] + 256 * b[2]),
     dlc |-> b[5], pad |-> b[6], res0 |-> b[7], res1 |-> b[8],
     data |-> SubSeq(b, 9, 16)]

\* nb::Error and SocketError
WouldBlock == [kind |-> "WouldBlock"]
Other(e) == [kind |-> "Other", inner |-> e]
IOError(errno) == [kind |-> "IOError", errno |-> errno]

\* a faulty variant of transmit's write: the data bytes left out
WriteBytes_no_data(frame) ==
    SubSeq(ToBytes(frame), 1, 8) \o Zeros8

\* Socket::transmit: the bytes handed to write(), and the outcome for what
\* write() returned
WriteBytes(frame) == ToBytes(frame)

Socket_transmit(write_rv, errno) ==
    IF write_rv # FrameSize
    THEN Err(Other(IOError(errno)))
    ELSE Ok(None)

\* Socket::receive: the outcome for what read() returned and the bytes it
\* put in the frame; nb::Error::from makes an Other of every failure
Socket_receive(read_rv, bytes, errno) ==
    IF read_rv # FrameSize
    THEN Err(Other(IOError(errno)))
    ELSE Ok(FromBytes(bytes))

\* Socket::close, whose result drop ignores: close() on the descriptor
Socket_close(d) == [state |-> "closed", closes |-> d.closes + 1]

\* the kernel's delivery of a record to a socket: it is queued when one
\* filter of the table matches its id word and the queue has room
Accepts(table, bytes) ==
    \E i \in 1..Len(table) : Matches(table[i], FromBytes(bytes).id)

NoTx == [sent |-> FALSE, frame |-> Frame_default, pending |-> 0,
         echo |-> FALSE, pass |-> FALSE]
Unopened == [state |-> "unopened", closes |-> 0]
Opened == [state |-> "open", closes |-> 0]

(***************************************************************************)
(* State                                                                   *)
(***************************************************************************)
VARIABLES
    call,       \* the last constructor or receive call and its arguments
    res,        \* what that call returned
    decoded,    \* what error() returned for the frame in res, once called
    fcall,      \* the last Filter constructor or builder call
    filter,     \* the Filter value it left
    verdict,    \* the outcome of matching a received identifier against it
    fctor,      \* the constructor the filter was built by, and its id argument
    gfilters,   \* FilterGroup.filters
    ginstalled, \* the filter table the kernel holds for FilterGroup.fd
    gcall,      \* the last FilterGroup call and the length it found
    gres,       \* how that call ended
    gopt,       \* the value pointer and length of the last setsockopt call
    sock,       \* the Socket value: "none", "open", "dropped" or "raw"
    fd,         \* the descriptor behind it: its state and the close() calls on it
    sopts,      \* the socket's O_NONBLOCK, loopback and recv-own-msgs settings
    sfilters,   \* the filter table set on the socket
    rxq,        \* the records queued on the socket for read()
    stx,        \* the transmit that was the last call on the socket, if it succeeded
    scall,      \* the last call on the socket
    sres        \* what it returned

vars == <<call, res, decoded, fcall, filter, verdict, fctor,
          gfilters, ginstalled, gcall, gres, gopt,
          sock, fd, sopts, sfilters, rxq, stx, scall, sres>>
svars == <<sock, fd, sopts, sfilters, rxq, stx, scall, sres>>
gvars == <<gfilters, ginstalled, gcall, gres, gopt>>
cvars == <<call, res, decoded>>
fvars == <<fcall, filter, verdict, fctor>>

NoArgs == [id |-> Zero32, data |-> <<>>, rtr |-> FALSE, err |-> FALSE]

Init ==
    /\ call = [op |-> "none", args |-> NoArgs]
    /\ res = NotCalled
    /\ decoded = NotCalled
    /\ fcall = "none"
    /\ filter = NoFilter
    /\ verdict = NoVerdict
    /\ fctor = NoCtor
    /\ gfilters = FilterGroup_new
    /\ ginstalled = <<accept_all>>
    /\ gcall = [op |-> "none", before |-> 0]
    /\ gres = "none"
    /\ gopt = NoOpt
    /\ sock = "none"
    /\ fd = Unopened
    /\ sopts = [nonblocking |-> FALSE, loopback |-> TRUE, recv_own_msgs |-> FALSE]
    /\ sfilters = <<accept_all>>
    /\ rxq = <<>>
    /\ stx = NoTx
    /\ scall = [op |-> "none", after |-> NoTx, empty |-> TRUE,
                nonblocking |-> FALSE]
    /\ sres = NotCalled

\* the caller, holding no result, builds a frame with Frame::new
New ==
    /\ res = NotCalled
    /\ \E id \in NewIds, data \in Payloads, rtr \in BOOLEAN, err \in BOOLEAN :
          /\ call' = [op |-> "new",
                      args |-> [id |-> id, data |-> data, rtr |-> rtr, err |-> err]]
          /\ res' = Frame_new(id, data, rtr, err)
    /\ decoded' = NotCalled
    /\ UNCHANGED <<fvars, gvars, svars>>

\* the caller takes Frame::default()
Default ==
    /\ res = NotCalled
    /\ call' = [op |-> "default", args |-> NoArgs]
    /\ res' = Ok(Frame_default)
    /\ decoded' = NotCalled
    /\ UNCHANGED <<fvars, gvars, svars>>

\* identifiers of the embedded_can interface, of both kinds
TraitIds ==
    {StandardId(v) : v \in {0, 1, 291, 2047}}
    \cup {ExtendedId(w) : w \in {W(0, 0), W(0, 291), W(0, 2047), W(0, 2048),
                                 W(1, 2), W(8191, 65535)}}

\* the caller, holding no result, builds a frame through the embedded_can
\* interface
TraitNew ==
    /\ res = NotCalled
    /\ \E id \in TraitIds, data \in Payloads :
          /\ call' = [op |-> "trait_new", kind |-> id.kind,
                      args |-> [id |-> id.raw, data |-> data,
                                rtr |-> FALSE, err |-> FALSE]]
          /\ res' = Frame_trait_new(id, data)
    /\ decoded' = NotCalled
    /\ UNCHANGED <<fvars, gvars, svars>>

TraitNewRemote ==
    /\ res = NotCalled
    /\ \E id \in TraitIds, dlc \in 0..MaxLen :
          /\ call' = [op |-> "trait_new_remote", kind |-> id.kind,
                      args |-> [id |-> id.raw, data |-> [i \in 1..dlc |-> 0],
                                rtr |-> TRUE, err |-> FALSE]]
          /\ res' = Frame_new_remote(id, dlc)
    /\ decoded' = NotCalled
    /\ UNCHANGED <<fvars, gvars, svars>>

\* records the socket can deliver: any identifier word, any dlc byte
RawFrames ==
    {[id |-> w, dlc |-> n, pad |-> 0, res0 |-> 0, res1 |-> 0,
      data |-> Payload(8, x, y)] :
        w \in RawIds, n \in 0..MaxRawDlc, x \in ByteVals, y \in ByteVals}

\* Socket::receive: read() fills a frame with FrameSize raw bytes, which are
\* taken as they are; any other return of read() is an error
Receive ==
    /\ res = NotCalled
    /\ \E read_rv \in ReadReturns, raw \in RawFrames :
          res' = IF read_rv # FrameSize
                 THEN Err([kind |-> "Other", inner |-> "IOError"])
                 ELSE Ok(raw)
    /\ call' = [op |-> "receive", args |-> NoArgs]
    /\ decoded' = NotCalled
    /\ UNCHANGED <<fvars, gvars, svars>>

\* the caller asks the frame it holds for its error
Error ==
    /\ res.tag = "Ok"
    /\ decoded = NotCalled
    /\ decoded' = Frame_error(res.val)
    /\ UNCHANGED <<call, res>>
    /\ UNCHANGED <<fvars, gvars, svars>>

\* the caller lets go of the result it holds (a frame is Copy: nothing to free)
Drop ==
    /\ res # NotCalled
    /\ call' = [op |-> "none", args |-> NoArgs]
    /\ res' = NotCalled
    /\ decoded' = NotCalled
    /\ UNCHANGED <<fvars, gvars, svars>>

Next ==
    \/ New
    \/ TraitNew
    \/ TraitNewRemote
    \/ Default
    \/ Receive
    \/ Error
    \/ Drop

Spec == Init /\ [][Next]_vars

(***************************************************************************)
(* Filters: construction, and matching of received identifiers             *)
(***************************************************************************)
\* identifiers and masks filters are built from
FilterIds ==
    {W(0, 0), W(0, 291), W(0, 292), W(0, 2047), W(1, 9029), W(16384, 291),
     W(32768, 291)}

FilterMasks ==
    {W(0, 0), W(0, 2047), W(0, 2046), W(8191, 65535), W(49152, 2047),
     W(57343, 65535), W(65535, 65535)}

\* identifier words of received frames
Candidates ==
    {W(0, 0), W(0, 291), W(0, 292), W(0, 2339), W(1, 9029), W(16384, 291),
     W(32768, 291), W(49152, 291), W(32769, 9029), W(49153, 9029),
     W(8191, 65535), W(65535, 65535)}

FilterNew ==
    /\ fcall = "none"
    /\ \E id \in FilterIds, mask \in FilterMasks :
          /\ filter' = Filter_new(id, mask)
          /\ fctor' = [op |-> "new", id |-> id]
    /\ fcall' = "new"
    /\ UNCHANGED verdict
    /\ UNCHANGED <<cvars, gvars, svars>>

AcceptAll ==
    /\ fcall = "none"
    /\ filter' = accept_all
    /\ fctor' = [op |-> "accept_all", id |-> Zero32]
    /\ fcall' = "accept_all"
    /\ UNCHANGED verdict
    /\ UNCHANGED <<cvars, gvars, svars>>

NewStandard ==
    /\ fcall = "none"
    /\ \E id \in FilterIds :
          /\ filter' = new_standard(id)
          /\ fctor' = [op |-> "new_standard", id |-> id]
    /\ fcall' = "new_standard"
    /\ UNCHANGED verdict
    /\ UNCHANGED <<cvars, gvars, svars>>

NewExtended ==
    /\ fcall = "none"
    /\ \E id \in FilterIds :
          /\ filter' = new_extended(id)
          /\ fctor' = [op |-> "new_extended", id |-> id]
    /\ fcall' = "new_extended"
    /\ UNCHANGED verdict
    /\ UNCHANGED <<cvars, gvars, svars>>

WithMask ==
    /\ fcall \in {"new", "accept_all", "new_standard", "new_extended"}
    /\ verdict = NoVerdict
    /\ \E mask \in FilterMasks : filter' = with_mask(filter, mask)
    /\ fcall' = "with_mask"
    /\ UNCHANGED <<verdict, fctor>>
    /\ UNCHANGED <<cvars, gvars, svars>>

AllowRemote ==
    /\ fcall \in {"new", "accept_all", "new_standard", "new_extended"}
    /\ verdict = NoVerdict
    /\ filter' = allow_remote(filter)
    /\ fcall' = "allow_remote"
    /\ UNCHANGED <<verdict, fctor>>
    /\ UNCHANGED <<cvars, gvars, svars>>

\* a frame with identifier word c arrives and is matched against the filter
Match ==
    /\ fcall # "none"
    /\ verdict = NoVerdict
    /\ \E c \in Candidates :
          verdict' = [candidate |-> c, accepted |-> Matches(filter, c),
                      matched |-> TRUE]
    /\ UNCHANGED <<fcall, filter, fctor>>
    /\ UNCHANGED <<cvars, gvars, svars>>

\* the filter is let go of
DropFilter ==
    /\ fcall # "none"
    /\ fcall' = "none"
    /\ filter' = NoFilter
    /\ verdict' = NoVerdict
    /\ fctor' = NoCtor
    /\ UNCHANGED <<cvars, gvars, svars>>

FilterNext ==
    \/ FilterNew
    \/ AcceptAll
    \/ NewStandard
    \/ NewExtended
    \/ WithMask
    \/ AllowRemote
    \/ Match
    \/ DropFilter

FilterSpec == Init /\ [][FilterNext]_vars

(***************************************************************************)
(* FilterGroup: add_filter and clear_filters                               *)
(***************************************************************************)
\* add_filter is called on groups of up to CAN_RAW_FILTER_MAX + MaxOver - 1
\* filters
MaxOver == 2

\* the filters added are chosen freely for the first MaxVaried, and are
\* accept_all after that
MaxVaried == 2

GroupFilters == {accept_all, Filter_new(W(0, 291), W(0, 2047))}

\* what setsockopt returns
SetsockoptReturns == {0, -1}

\* FilterGroup::add_filter: only the stored list changes
AddFilter ==
    /\ gres # "panic"
    /\ Len(gfilters) < CAN_RAW_FILTER_MAX + MaxOver
    /\ \E f \in (IF Len(gfilters) < MaxVaried THEN GroupFilters ELSE {accept_all}) :
          gfilters' = add_filter(gfilters, f)
    /\ gcall' = [op |-> "add_filter", before |-> FilterGroup_len(gfilters)]
    /\ gres' = "unit"
    /\ UNCHANGED <<ginstalled, gopt>>
    /\ UNCHANGED <<cvars, fvars, svars>>

\* FilterGroup::clear_filters: the list is cleared, then the empty table is
\* set on the socket; a failure of setsockopt is unwrapped into a panic
ClearFilters ==
    /\ gres # "panic"
    /\ gfilters' = <<>>
    /\ gopt' = set_socket_option_mult(<<>>)
    /\ \E rv \in SetsockoptReturns :
          /\ ginstalled' = IF rv = 0 THEN <<>> ELSE ginstalled
          /\ gres' = IF rv # 0 THEN "panic" ELSE "unit"
    /\ gcall' = [op |-> "clear_filters", before |-> FilterGroup_len(gfilters)]
    /\ UNCHANGED <<cvars, fvars, svars>>

GroupNext ==
    \/ AddFilter
    \/ ClearFilters

GroupSpec == Init /\ [][GroupNext]_vars

(***************************************************************************)
(* Socket: open, options, transmit, receive, and the end of the descriptor *)
(***************************************************************************)
MaxQueue == 2

\* the frames a caller transmits, and the records other nodes put on the bus
TxFrames ==
    {Frame_new(W(0, 1), <<222, 173, 190, 255>>, FALSE, FALSE).val,
     Frame_new(W(0, 291), <<>>, TRUE, FALSE).val,
     Frame_new(W(1, 291), <<7>>, FALSE, FALSE).val}

BusRecords ==
    {ToBytes(Frame_new(W(0, 1), <<9>>, FALSE, FALSE).val),
     ToBytes(Frame_new(W(0, 292), <<1, 2>>, FALSE, FALSE).val)}

FilterTables == {<<accept_all>>, <<>>, <<new_standard(W(0, 1))>>}

\* a call on the socket other than transmit and receive
Called(op) ==
    /\ scall' = [op |-> op, after |-> NoTx, empty |-> rxq = <<>>,
                 nonblocking |-> sopts.nonblocking]
    /\ stx' = NoTx

\* Socket::open_if: socket() fails, or bind() fails and the descriptor is
\* closed, or the Socket is returned
OpenIf ==
    /\ sock = "none"
    /\ fd = Unopened
    /\ \E sock_fd \in {-1, 3}, bind_rv \in {-1, 0} :
          IF sock_fd = -1
          THEN /\ sres' = Err(IOError("socket"))
               /\ UNCHANGED <<sock, fd>>
          ELSE IF bind_rv = -1
          THEN /\ fd' = Socket_close(Opened)
               /\ sres' = Err(IOError("bind"))
               /\ UNCHANGED sock
          ELSE /\ fd' = Opened
               /\ sock' = "open"
               /\ sres' = Ok("Socket")
    /\ Called("open_if")
    /\ UNCHANGED <<sopts, sfilters, rxq>>
    /\ UNCHANGED <<cvars, fvars, gvars>>

\* Socket::set_nonblocking: O_NONBLOCK set or cleared by fcntl
SetNonblocking ==
    /\ sock = "open"
    /\ \E nonblocking \in BOOLEAN :
          sopts' = [sopts EXCEPT !.nonblocking = nonblocking]
    /\ sres' = Ok("unit")
    /\ Called("set_nonblocking")
    /\ UNCHANGED <<sock, fd, sfilters, rxq>>
    /\ UNCHANGED <<cvars, fvars, gvars>>

\* Socket::set_loopback
SetLoopback ==
    /\ sock = "open"
    /\ \E enabled \in BOOLEAN :
          sopts' = [sopts EXCEPT !.loopback = enabled]
    /\ sres' = Ok("unit")
    /\ Called("set_loopback")
    /\ UNCHANGED <<sock, fd, sfilters, rxq>>
    /\ UNCHANGED <<cvars, fvars, gvars>>

\* Socket::set_recv_own_msgs
SetRecvOwnMsgs ==
    /\ sock = "open"
    /\ \E enabled \in BOOLEAN :
          sopts' = [sopts EXCEPT !.recv_own_msgs = enabled]
    /\ sres' = Ok("unit")
    /\ Called("set_recv_own_msgs")
    /\ UNCHANGED <<sock, fd, sfilters, rxq>>
    /\ UNCHANGED <<cvars, fvars, gvars>>

\* Socket::set_filters, and clear_filters with the empty table
SetFilters ==
    /\ sock = "open"
    /\ \E filters \in FilterTables : sfilters' = filters
    /\ sres' = Ok("unit")
    /\ Called("set_filters")
    /\ UNCHANGED <<sock, fd, sopts, rxq>>
    /\ UNCHANGED <<cvars, fvars, gvars>>

\* Socket::transmit: FrameSize bytes of the frame are written; a written
\* frame is queued on the sending socket too when loopback and
\* recv_own_msgs are on and its filters accept it
Transmit ==
    /\ sock = "open"
    /\ \E frame \in TxFrames, write_rv \in {-1, FrameSize} :
          LET bytes == WriteBytes(frame)
              echo == sopts.loopback /\ sopts.recv_own_msgs
              pass == Accepts(sfilters, bytes)
          IN  /\ sres' = Socket_transmit(write_rv, "ENOBUFS")
              /\ rxq' = IF /\ write_rv = FrameSize
                           /\ echo
                           /\ pass
                           /\ Len(rxq) < MaxQueue
                        THEN Append(rxq, bytes)
                        ELSE rxq
              /\ stx' = IF write_rv = FrameSize
                        THEN [sent |-> TRUE, frame |-> frame,
                              pending |-> Len(rxq), echo |-> echo,
                              pass |-> pass]
                        ELSE NoTx
    /\ scall' = [op |-> "transmit", after |-> NoTx, empty |-> rxq = <<>>,
                 nonblocking |-> sopts.nonblocking]
    /\ UNCHANGED <<sock, fd, sopts, sfilters>>
    /\ UNCHANGED <<cvars, fvars, gvars>>

\* a frame of another node arrives and passes the socket's filters
BusDeliver ==
    /\ sock = "open"
    /\ Len(rxq) < MaxQueue
    /\ \E bytes \in BusRecords :
          /\ Accepts(sfilters, bytes)
          /\ rxq' = Append(rxq, bytes)
    /\ UNCHANGED <<sock, fd, sopts, sfilters, stx, scall, sres>>
    /\ UNCHANGED <<cvars, fvars, gvars>>

\* Socket::receive: read() takes the oldest queued record; with none queued
\* it fails with EAGAIN on a nonblocking socket and does not return on a
\* blocking one
SocketReceive ==
    /\ sock = "open"
    /\ rxq # <<>> \/ sopts.nonblocking
    /\ IF rxq # <<>>
       THEN /\ sres' = Socket_receive(FrameSize, Head(rxq), "none")
            /\ rxq' = Tail(rxq)
       ELSE /\ sres' = Socket_receive(-1, rxq, "EAGAIN")
            /\ UNCHANGED rxq
    /\ scall' = [op |-> "receive", after |-> stx, empty |-> rxq = <<>>,
                 nonblocking |-> sopts.nonblocking]
    /\ stx' = NoTx
    /\ UNCHANGED <<sock, fd, sopts, sfilters>>
    /\ UNCHANGED <<cvars, fvars, gvars>>

\* IntoRawFd::into_raw_fd: the descriptor number is returned and self, which
\* the function owns, is dropped at its end
IntoRawFd ==
    /\ sock = "open"
    /\ sock' = "raw"
    /\ fd' = Socket_close(fd)
    /\ sres' = Ok("fd")
    /\ Called("into_raw_fd")
    /\ UNCHANGED <<sopts, sfilters, rxq>>
    /\ UNCHANGED <<cvars, fvars, gvars>>

\* Drop::drop of the Socket
DropSocket ==
    /\ sock = "open"
    /\ sock' = "dropped"
    /\ fd' = Socket_close(fd)
    /\ sres' = NotCalled
    /\ Called("drop")
    /\ UNCHANGED <<sopts, sfilters, rxq>>
    /\ UNCHANGED <<cvars, fvars, gvars>>

SocketNext ==
    \/ OpenIf
    \/ SetNonblocking
    \/ SetLoopback
    \/ SetRecvOwnMsgs
    \/ SetFilters
    \/ Transmit
    \/ BusDeliver
    \/ SocketReceive
    \/ IntoRawFd
    \/ DropSocket

SocketSpec == Init /\ [][SocketNext]_vars

(***************************************************************************)
(* Properties of the frame codec                                           *)
(***************************************************************************)
\* the arguments of the Frame::new call whose result is in res
NewCalled == call.op = "new"
Args == call.args

\* bits of an identifier word, read off the representation
Bit29(w) == (w.hi \div 8192) % 2 = 1
Low29(w) == W(w.hi % 8192, w.lo)

\* C1: for every id in 0..0x7FF and every payload of at most 8 bytes,
\* Frame::new(id, data, false, false) succeeds, and the frame is not
\* extended and reports the identifier it was built from.
C1_StandardIdRoundTrip ==
    (/\ NewCalled
     /\ Args.id.hi = 0 /\ Args.id.lo <= 2047
     /\ Len(Args.data) <= 8
     /\ ~Args.rtr /\ ~Args.err)
    => /\ res.tag = "Ok"
       /\ Frame_is_extended(res.val) = FALSE
       /\ Frame_id(res.val) = [kind |-> "Standard", raw |-> Args.id]

C1_Witness ==
    /\ NewCalled
    /\ Args.id = W(0, 2047) /\ Len(Args.data) = 8 /\ ~Args.rtr /\ ~Args.err
    /\ res.tag = "Ok"
    /\ ~Frame_is_extended(res.val)
    /\ Frame_id(res.val).raw = W(0, 2047)

\* C2: for every id above 0x7FF and up to 0x1FFFFFFF and every payload of at
\* most 8 bytes, the frame built by Frame::new is extended and reports the
\* full 29-bit identifier it was built from.
C2_ExtendedIdRoundTrip ==
    (/\ NewCalled
     /\ Gt32(Args.id, W(0, 2047)) /\ ~Gt32(Args.id, W(8191, 65535))
     /\ Len(Args.data) <= 8)
    => /\ res.tag = "Ok"
       /\ Frame_is_extended(res.val) = TRUE
       /\ Frame_id(res.val) = [kind |-> "Extended", raw |-> Args.id]

C2_Witness ==
    /\ NewCalled
    /\ Args.id = W(0, 2048) /\ Len(Args.data) = 4
    /\ res.tag = "Ok"
    /\ Frame_is_extended(res.val)
    /\ Frame_id(res.val).raw = W(0, 2048)

\* C3: Frame::new with a payload longer than 8 bytes fails with
\* TooMuchData whatever id, rtr and err are; no frame is produced.
C3_TooMuchData ==
    (NewCalled /\ Len(Args.data) > 8) => res = Err(TooMuchData)

C3_Witness ==
    /\ NewCalled
    /\ Len(Args.data) = 9 /\ Args.id = W(65535, 65535) /\ Args.rtr /\ Args.err
    /\ res = Err(TooMuchData)

\* C4 as claimed: Frame::new with id > 0x1FFFFFFF fails with IDTooLarge
\* whatever data, rtr and err are, a payload longer than 8 bytes included.
C4_IDTooLargeAlways ==
    (NewCalled /\ Gt32(Args.id, W(8191, 65535))) => res = Err(IDTooLarge)

\* C4, amended: Frame::new with id > 0x1FFFFFFF never produces a frame; it
\* fails with IDTooLarge when the payload has at most 8 bytes and with
\* TooMuchData when it is longer, the length being checked first.  The id
\* range is checked before the extended flag is set.
C4_IDTooLarge ==
    (NewCalled /\ Gt32(Args.id, W(8191, 65535)))
    => res = IF Len(Args.data) > 8 THEN Err(TooMuchData) ELSE Err(IDTooLarge)

C4_Witness ==
    /\ NewCalled
    /\ Args.id = W(8192, 0) /\ Len(Args.data) = 8
    /\ res = Err(IDTooLarge)

\* C5: for every payload p of n <= 8 bytes and every valid id, rtr and err,
\* Frame::new succeeds and the frame has dlc() = n and data() = p, the same
\* bytes in the same order and none after them.
C5_PayloadRoundTrip ==
    (NewCalled /\ Len(Args.data) <= 8 /\ ~Gt32(Args.id, W(8191, 65535)))
    => /\ res.tag = "Ok"
       /\ Frame_dlc(res.val) = Len(Args.data)
       /\ Frame_data(res.val) = Ok(Args.data)

C5_Witness ==
    /\ NewCalled
    /\ Args.data = <<5, 255, 5>> /\ Args.rtr /\ Args.err
    /\ res.tag = "Ok"
    /\ Frame_dlc(res.val) = 3
    /\ Frame_data(res.val) = Ok(<<5, 255, 5>>)
    /\ res.val.data[4] = 0

(***************************************************************************)
(* Properties of the error decoder                                         *)
(***************************************************************************)
\* error() has been called on the frame in res
Decoded == res.tag = "Ok" /\ decoded # NotCalled

\* the frame in res is an error frame of class code c
ErrorFrameOfClass(c) ==
    Decoded /\ Bit29(res.val.id) /\ Low29(res.val.id) = c

\* C6: from_frame on a frame whose error flag (bit 29) is clear fails with
\* NotAnError, whatever the other id bits, dlc and data are.
C6_NotAnError ==
    (Decoded /\ ~Bit29(res.val.id)) => decoded = Err(NotAnError)

C6_Witness ==
    /\ Decoded
    /\ call.op = "receive"
    /\ res.val.id = W(49152, 2) /\ res.val.dlc = 1
    /\ decoded = Err(NotAnError)

\* C7: for an error frame of class 0x2, from_frame yields
\* LostArbitration(v), v the first payload byte, when the payload has at
\* least one byte, and fails with NotEnoughData(0) when it is empty.
C7_LostArbitration ==
    ErrorFrameOfClass(W(0, 2))
    => /\ res.val.dlc \in 1..8 => decoded = Ok(LostArbitration(res.val.data[1]))
       /\ res.val.dlc = 0 => decoded = Err(NotEnoughData(0))

C7_Witness ==
    /\ ErrorFrameOfClass(W(0, 2))
    /\ res.val.dlc = 1 /\ res.val.data[1] = 5
    /\ decoded = Ok(LostArbitration(5))

\* the one-hot class codes from_frame knows
KnownClasses ==
    {W(0, 1), W(0, 2), W(0, 4), W(0, 8), W(0, 16), W(0, 32), W(0, 64),
     W(0, 128), W(0, 256)}

\* C8: for an error frame whose 29-bit class code c is none of the nine
\* one-hot codes, from_frame fails with UnknownErrorType(c).
C8_UnknownErrorType ==
    (Decoded /\ Bit29(res.val.id) /\ Low29(res.val.id) \notin KnownClasses)
    => decoded = Err(UnknownErrorType(Low29(res.val.id)))

C8_Witness ==
    /\ ErrorFrameOfClass(W(1, 2))
    /\ decoded = Err(UnknownErrorType(W(1, 2)))

\* C9 as claimed: class 0x4 with dlc < 2 fails with NotEnoughData(1);
\* class 0x8 with dlc < 3 fails with NotEnoughData(2) and with dlc = 3
\* fails with NotEnoughData(3), whatever the bytes that are present.
C9_NotEnoughDataAlways ==
    /\ (ErrorFrameOfClass(W(0, 4)) /\ res.val.dlc < 2)
       => decoded = Err(NotEnoughData(1))
    /\ (ErrorFrameOfClass(W(0, 8)) /\ res.val.dlc < 3)
       => decoded = Err(NotEnoughData(2))
    /\ (ErrorFrameOfClass(W(0, 8)) /\ res.val.dlc = 3)
       => decoded = Err(NotEnoughData(3))

\* the byte values of the ViolationType table
ViolationTypeCodes == {0, 1, 2, 4, 8, 16, 32, 64, 128}

\* C9, amended: class 0x4 with dlc < 2 fails with NotEnoughData(1); class
\* 0x8 with dlc < 3 fails with NotEnoughData(2); class 0x8 with dlc = 3
\* fails with NotEnoughData(3) when byte 2 is a violation-type code, and
\* with InvalidViolationType when it is not: byte 2 is decoded before
\* byte 3 is fetched.
C9_NotEnoughData ==
    /\ (ErrorFrameOfClass(W(0, 4)) /\ res.val.dlc < 2)
       => decoded = Err(NotEnoughData(1))
    /\ (ErrorFrameOfClass(W(0, 8)) /\ res.val.dlc < 3)
       => decoded = Err(NotEnoughData(2))
    /\ (ErrorFrameOfClass(W(0, 8)) /\ res.val.dlc = 3)
       => decoded = IF res.val.data[3] \in ViolationTypeCodes
                    THEN Err(NotEnoughData(3))
                    ELSE Err(InvalidViolationType)

C9_Witness ==
    /\ ErrorFrameOfClass(W(0, 8))
    /\ res.val.dlc = 3 /\ res.val.data[3] = 128
    /\ decoded = Err(NotEnoughData(3))

(***************************************************************************)
(* Properties of filters                                                   *)
(***************************************************************************)
\* bit i (0 the lowest) of an identifier word
BitOf(w, i) == IF i < 16 THEN (w.lo \div 2^i) % 2 ELSE (w.hi \div 2^(i - 16)) % 2

\* C10: a candidate is accepted exactly when it agrees with the filter's id
\* on every bit of the mask; Filter::new(0x123, 0x7FF) accepts 0x123 and
\* rejects 0x124, and accept_all() accepts every candidate.
C10_FilterMatching ==
    verdict.matched
    => /\ verdict.accepted
          <=> \A i \in 0..31 :
                 BitOf(filter.mask, i) = 1
                 => BitOf(verdict.candidate, i) = BitOf(filter.id, i)
       /\ (fcall = "new" /\ filter = [id |-> W(0, 291), mask |-> W(0, 2047)])
          => /\ verdict.candidate = W(0, 291) => verdict.accepted
             /\ verdict.candidate = W(0, 292) => ~verdict.accepted
       /\ fcall = "accept_all" => verdict.accepted

C10_Witness ==
    /\ verdict.matched
    /\ fcall = "new" /\ filter = [id |-> W(0, 291), mask |-> W(0, 2047)]
    /\ verdict.candidate = W(0, 292)
    /\ ~verdict.accepted

\* the filter was built by new_standard or new_extended from an identifier
\* of the constructor's width
BuiltForId ==
    \/ fctor.op = "new_standard" /\ fctor.id.hi = 0 /\ fctor.id.lo <= 2047
    \/ fctor.op = "new_extended" /\ fctor.id.hi <= 8191

\* the id words of the data frame and of the remote-request frame that carry
\* the identifier the filter was built for
DataWord ==
    IF fctor.op = "new_extended" THEN W(fctor.id.hi + 32768, fctor.id.lo)
    ELSE fctor.id
RemoteWord == W(DataWord.hi + 16384, DataWord.lo)

\* C11: a filter built by new_standard(id) or new_extended(id) rejects the
\* remote-request frame with that identifier; once allow_remote() has been
\* applied to it, it accepts the remote-request frame and the data frame
\* with that identifier.
C11_AllowRemote ==
    (verdict.matched /\ BuiltForId)
    => /\ (fcall = fctor.op /\ verdict.candidate = RemoteWord)
          => ~verdict.accepted
       /\ (fcall = "allow_remote" /\ verdict.candidate \in {DataWord, RemoteWord})
          => verdict.accepted

\* the part of C11 the code keeps: before allow_remote() the filter accepts
\* the data frame and rejects the remote-request frame, and allow_remote()
\* leaves the filter as it was
C11_BeforeAllowRemote ==
    (verdict.matched /\ BuiltForId /\ fcall \in {fctor.op, "allow_remote"})
    => /\ verdict.candidate = RemoteWord => ~verdict.accepted
       /\ verdict.candidate = DataWord => verdict.accepted

(***************************************************************************)
(* Properties of filter groups                                             *)
(***************************************************************************)
\* C12: add_filter fails on a group that holds num_filters() filters and
\* leaves len() as it was, so len() never exceeds num_filters().
C12_Capacity ==
    /\ FilterGroup_len(gfilters) <= num_filters
    /\ (gcall.op = "add_filter" /\ gcall.before >= num_filters)
       => /\ gres = "error"
          /\ FilterGroup_len(gfilters) = gcall.before

\* C15: after any add_filter or clear_filters call the table installed on
\* the socket is the stored list; clear_filters leaves both empty, the
\* empty table being passed as a null pointer of length 0.
C15_InstalledIsStored ==
    (gcall.op # "none" /\ gres # "panic")
    => /\ ginstalled = gfilters
       /\ gcall.op = "clear_filters"
          => /\ gfilters = <<>>
             /\ ginstalled = <<>>
             /\ gopt = [ptr |-> "null", len |-> 0]

\* the part of C15 the code keeps: a clear_filters call that returns leaves
\* the stored list and the installed table empty
C15_ClearFilters ==
    (gcall.op = "clear_filters" /\ gres # "panic")
    => /\ gfilters = <<>>
       /\ ginstalled = <<>>
       /\ gopt = [ptr |-> "null", len |-> 0]

(***************************************************************************)
(* Properties of frames a caller holds                                     *)
(***************************************************************************)
\* C16: every frame built by Frame::new or returned by receive() has
\* dlc <= 8, and data() returns exactly dlc bytes of it without failing.
C16_DlcAtMost8 ==
    (res.tag = "Ok" /\ call.op \in {"new", "receive"})
    => /\ res.val.dlc <= 8
       /\ Frame_data(res.val).tag = "Ok"
       /\ Len(Frame_data(res.val).val) = res.val.dlc

\* the part of C16 the code keeps: the frames built by Frame::new
C16_BuiltFrames ==
    (res.tag = "Ok" /\ call.op = "new")
    => /\ res.val.dlc <= 8
       /\ Frame_data(res.val).tag = "Ok"
       /\ Len(Frame_data(res.val).val) = res.val.dlc

\* the embedded_can interface was called with an Id and at most 8 bytes
TraitCalled ==
    call.op \in {"trait_new", "trait_new_remote"} /\ Len(call.args.data) <= 8

\* C17: the frame that new(id, data) or new_remote(id, dlc) of the
\* embedded_can interface returns reports id() equal to the Id it was built
\* from, kind included: Extended for every Extended id, also below 0x800.
C17_IdRoundTrip ==
    TraitCalled
    => /\ res.tag = "Some"
       /\ Frame_id(res.val) = [kind |-> call.kind, raw |-> call.args.id]

\* the part of C17 the code keeps: the value is read back for every Id, and
\* the kind for every Id but an Extended one of at most 0x7FF
C17_ExceptSmallExtended ==
    TraitCalled
    => /\ res.tag = "Some"
       /\ Frame_id(res.val).raw = call.args.id
       /\ Frame_is_remote_frame(res.val) = (call.op = "trait_new_remote")
       /\ (call.kind = "Standard" \/ Gt32(call.args.id, W(0, 2047)))
          => Frame_id(res.val).kind = call.kind

(***************************************************************************)
(* Properties of the socket                                                *)
(***************************************************************************)
\* C13: receive() on a nonblocking socket with no frame pending returns
\* WouldBlock, and neither a frame nor an Other error.
C13_WouldBlock ==
    (scall.op = "receive" /\ scall.nonblocking /\ scall.empty)
        => (sres.tag = "Err" /\ sres.val = WouldBlock)

\* the transmit that receive() followed echoed its frame to the socket
Echoed == scall.op = "receive" /\ scall.after.sent /\ scall.after.echo

SameFrame ==
    /\ sres.tag = "Ok"
    /\ Frame_id(sres.val) = Frame_id(scall.after.frame)
    /\ Frame_data(sres.val) = Frame_data(scall.after.frame)

\* C14: with loopback and recv_own_msgs on, the receive() that follows a
\* successful transmit(f) returns a frame with the id() and data() of f.
C14_LoopbackAlways == Echoed => SameFrame

\* C14: with loopback and recv_own_msgs on, filters that accept f and no
\* frame pending when transmit(f) is called, the receive() that follows the
\* successful transmit(f) returns a frame with the id() and data() of f.
C14_Loopback ==
    (Echoed /\ scall.after.pass /\ scall.after.pending = 0) => SameFrame

C14_Witness ==
    /\ Echoed
    /\ scall.after.pass
    /\ scall.after.pending = 0
    /\ sres.tag = "Ok"
    /\ Frame_id(sres.val) = StandardId(1)
    /\ Frame_data(sres.val) = Ok(<<222, 173, 190, 255>>)

BindFailed == sres.tag = "Err" /\ sres.val = IOError("bind")

\* C18: the descriptor of open_if is closed exactly once when the Socket is
\* dropped, and by open_if when bind fails; the descriptor that into_raw_fd
\* returned is open.
C18_Descriptor ==
    /\ fd.closes <= 1
    /\ sock = "open" => fd = Opened
    /\ sock = "dropped" => fd = Socket_close(Opened)
    /\ (scall.op = "open_if" /\ BindFailed) => fd = Socket_close(Opened)
    /\ sock = "raw" => fd = Opened

\* C18, without into_raw_fd: the descriptor is open while the Socket lives
\* and closed exactly once by its drop or by the failed bind of open_if.
C18_DropClosesOnce ==
    /\ fd.closes <= 1
    /\ sock = "open" => fd = Opened
    /\ sock = "dropped" => fd = Socket_close(Opened)
    /\ (scall.op = "open_if" /\ BindFailed) => fd = Socket_close(Opened)

====
